---- MODULE Spec2Model ----
(***************************************************************************)
(* A model of the gzip response-compression middleware: the handler        *)
(* closure of GzipHandlerWithOpts, the GzipResponseWriter state machine    *)
(* (both implementations kept in the repository: gzip.go and               *)
(* gzip_responsewriter.go), the h1/h2 protocol wrappers and the pool of    *)
(* gzip writers.                                                           *)
(*                                                                         *)
(* Body bytes are numbered in the order the handler writes them (the k-th  *)
(* byte written is k): the writer never looks at a byte's value, and the   *)
(* numbering lets a lost, repeated or reordered byte be seen.              *)
(***************************************************************************)
EXTENDS Integers, Sequences, FiniteSets, TLC

\* ------------------------------------------------------------------ bounds
NReq == 2          \* concurrent requests of SpecPool
MaxBytes == 3      \* body bytes one handler writes
MaxChunk == 2      \* bytes of one Write call
MaxMinSize == 2    \* largest configured minSize
MaxFaults == 1     \* downstream failures injected per request
MaxFlush == 1      \* Flush calls per request
MaxHdrOps == 1     \* header changes one handler makes

Reqs == 1..NReq
CompIds == 1..(2 * NReq)

\* ------------------------------------------------- program constants, strings
vary == "Vary"
acceptEncoding == "Accept-Encoding"
contentEncoding == "Content-Encoding"
contentType == "Content-Type"
contentLength == "Content-Length"

\* q-values are kept in thousandths: 1.0 is 1000.
DefaultQValue == 1000

protoHTTP11 == "HTTP/1.1"
protoHTTP11TLS == "HTTP/1.1+TLS"
protoHTTP20 == "HTTP/2.0"

\* A header key that is not in the map.
Absent == "<absent>"

\* http.Header.Get: the value, "" when the key is absent.
HeaderGet(h, k) == IF h[k] = Absent THEN "" ELSE h[k]

\* http.Header.Set / Del on the response header map.
HeaderSet(h, k, v) == [h EXCEPT ![k] = v]

HeaderDel(h, k) == [h EXCEPT ![k] = Absent]

\* strings.ToLower on the content types of the model.
ToLower(s) ==
    CASE s = "Text/Plain" -> "text/plain"
      [] s = "Application/JSON" -> "application/json"
      [] OTHER -> s

RECURSIVE LowerAll(_)
\* ContentTypes option: every entry of the list lower-cased, in order.
LowerAll(types) ==
    IF types = <<>> THEN <<>>
    ELSE <<ToLower(Head(types))>> \o LowerAll(Tail(types))

\* The bytes of a Write of n bytes after `done` bytes were written.
Chunk(done, n) == [i \in 1..n |-> done + i]

NoErr == "nil"
ErrShortWrite == "short write"
ErrIO == "io error"
ErrCloseWrite == "gziphandler: write to regular responseWriter at close gets error"
ErrNoHijacker == "http.Hijacker interface is not supported"
Panic == "panic"

\* ------------------------------------------------------------------ state
VARIABLES
    mw,     \* per request: the handler closure's position and what it handed on
    gzw,    \* per request: the GzipResponseWriter's fields
    hdr,    \* per request: the response header map, w.Header()
    sink,   \* per request: the underlying http.ResponseWriter
    ret,    \* per request: the last call on the writer and the error it returned
    hist,   \* per request: history of the calls made (observation only)
    pool,   \* gzipWriterPools[index]: the idle gzip writers
    comp,   \* the gzip.Writer objects
    config, \* the validated config the handler closure captured
    env     \* what the handlers and the network of this run may do

vars == <<mw, gzw, hdr, sink, ret, hist, pool, comp, config, env>>

\* The state one call works on: request r's writer, headers and sink, and the
\* shared pool and gzip writers. ret is what the call returns: (n, err).
Ctx(r) ==
    [r |-> r, w |-> gzw[r], h |-> hdr[r], s |-> sink[r], g |-> hist[r],
     pool |-> pool, comp |-> comp,
     ret |-> [op |-> ret[r].op, n |-> 0, err |-> ret[r].err]]

\* The call's result stored back.
Commit(r, c) ==
    /\ gzw' = [gzw EXCEPT ![r] = c.w]
    /\ hdr' = [hdr EXCEPT ![r] = c.h]
    /\ sink' = [sink EXCEPT ![r] = c.s]
    /\ hist' = [hist EXCEPT ![r] = c.g]
    /\ ret' = [ret EXCEPT ![r] = [op |-> c.ret.op, err |-> c.ret.err]]
    /\ pool' = c.pool
    /\ comp' = c.comp

\* http.Header.Add
HeaderAdd(h, k, v) == [h EXCEPT ![k] = IF @ = Absent THEN v ELSE @ \o "," \o v]

Return(c, op, n, err) == [c EXCEPT !.ret = [op |-> op, n |-> n, err |-> err]]

\* ------------------------------------------- the underlying ResponseWriter
\* net/http sends the header map as it stands at the first WriteHeader, Write
\* or Flush; later changes of the map do not reach the client.
SinkCommit(c, code) ==
    IF c.s.committed THEN c
    ELSE [c EXCEPT !.s.committed = TRUE, !.s.status = code, !.s.snap = c.h]

\* w.ResponseWriter.WriteHeader(code)
SinkWriteHeader(c, code) ==
    SinkCommit([c EXCEPT !.s.whCalls = @ + 1, !.s.whCodes = @ \cup {code}], code)

\* A downstream failure has happened.
Fault(c) == [c EXCEPT !.g.faults = @ + 1]

\* w.ResponseWriter.Write(items). f: "ok", "err" (the write fails, nothing is
\* sent) or "short" (the last item is not accepted, no error).
SinkWrite(c, items, f) ==
    LET c1 == SinkCommit(c, 200)
    IN CASE f = "err" -> Fault(c1)
         [] f = "short" /\ Len(items) > 0 ->
              Fault([c1 EXCEPT !.s.wire = @ \o SubSeq(items, 1, Len(items) - 1)])
         [] OTHER -> [c1 EXCEPT !.s.wire = @ \o items]

\* fw.Flush()
SinkFlush(c) ==
    LET c1 == SinkCommit(c, 200)
    IN [c1 EXCEPT !.s.flushes = @ + 1]

Raw(bytes) == [i \in 1..Len(bytes) |-> [t |-> "raw", b |-> bytes[i]]]

Gz(bytes) == [i \in 1..Len(bytes) |-> [t |-> "gz", b |-> bytes[i]]]

GzHeader == <<[t |-> "gzhdr", b |-> 0]>>

GzTrailer == <<[t |-> "gztrl", b |-> 0]>>

\* The pending output and the empty stored block a flush of the deflate stream
\* sends to the sink: counted, not placed, in the sink's record.
GzSync(c) == [SinkCommit(c, 200) EXCEPT !.s.syncs = @ + 1]

\* ------------------------------------------------------- compress/gzip
FreshWriter(dst) ==
    [dst |-> dst, wroteHeader |-> FALSE, closed |-> FALSE, err |-> FALSE]

\* What a gzip.Writer sends to its destination: the request's sink, or nowhere
\* after Reset(ioutil.Discard).
GzEmit(c, id, items, f) ==
    IF c.comp[id].dst = c.r THEN SinkWrite(c, items, f) ELSE c

\* The gzip header, written lazily by the first Write, Flush or Close.
GzLazyHeader(c, id) ==
    IF c.comp[id].wroteHeader THEN c
    ELSE GzEmit([c EXCEPT !.comp[id].wroteHeader = TRUE], id, GzHeader, "ok")

\* gzip.Writer.Write(b). f: "ok", "err" (the write fails and the error
\* sticks) or "short" (one byte fewer accepted, no error).
GzWrite(c, id, b, f, op) ==
    IF c.comp[id].err THEN Return(c, op, 0, ErrIO)
    ELSE LET c1 == GzLazyHeader(c, id)
         IN CASE f = "err" ->
                   Return(Fault([c1 EXCEPT !.comp[id].err = TRUE]), op, 0, ErrIO)
              [] f = "short" /\ Len(b) > 0 ->
                   Return(Fault(GzEmit(c1, id, Gz(SubSeq(b, 1, Len(b) - 1)), "ok")),
                          op, Len(b) - 1, NoErr)
              [] OTHER ->
                   Return(GzEmit(c1, id, Gz(b), "ok"), op, Len(b), NoErr)

\* gzip.Writer.Close(): a sticky error is returned, a closed writer returns
\* nil, otherwise the trailer is written.
GzClose(c, id, f, op) ==
    IF c.comp[id].err THEN Return(c, op, 0, ErrIO)
    ELSE IF c.comp[id].closed THEN Return(c, op, 0, NoErr)
    ELSE LET c1 == GzLazyHeader([c EXCEPT !.comp[id].closed = TRUE], id)
         IN IF f = "err"
            THEN Return(Fault([c1 EXCEPT !.comp[id].err = TRUE]), op, 0, ErrIO)
            ELSE Return(GzEmit(c1, id, GzTrailer, "ok"), op, 0, NoErr)

\* gzip.Writer.Flush(): nothing after an error or Close; otherwise the header,
\* if still due, and the pending data ended by a sync marker go to the
\* destination.
GzFlush(c, id) ==
    IF c.comp[id].err \/ c.comp[id].closed THEN c
    ELSE LET c1 == GzLazyHeader(c, id)
         IN IF c1.comp[id].dst = c1.r THEN GzSync(c1) ELSE c1

\* gzip.Writer.Reset(dst)
GzReset(c, id, dst) == [c EXCEPT !.comp[id] = FreshWriter(dst)]

\* ------------------------------------------------------------ sync.Pool
\* The instances Get may return: an idle one, or a new one.
PoolChoices(p) ==
    p.idle \cup (IF p.created + 1 \in CompIds THEN {p.created + 1} ELSE {})

\* gzipWriterPools[w.index].Get()
PoolGet(c, id) ==
    [c EXCEPT !.pool.idle = @ \ {id},
              !.pool.created = IF id > @ THEN id ELSE @,
              !.pool.bad = @ \/ id \in c.pool.live,
              !.pool.live = @ \cup {id},
              !.g.acq = @ + 1]

\* gzipWriterPools[w.index].Put(gzw)
PoolPut(c, id) ==
    [c EXCEPT !.pool.idle = @ \cup {id},
              !.pool.bad = @ \/ id \notin c.pool.live,
              !.pool.live = @ \ {id},
              !.g.rel = @ + 1]

\* ---------------------------------------------------------------- gzip.go
\* parseEncodings: the q-value of each coding of the Accept-Encoding header. A
\* header is a sequence of tokens [name, form, q]: form "bare" is a coding
\* without a weight, which gets DefaultQValue, "q" one with the weight q (in
\* thousandths), "bad" a malformed token, which is ignored.
parseEncodings(header) ==
    LET good == {i \in 1..Len(header) : header[i].form # "bad"}
    IN [name \in {header[i].name : i \in good} |->
           LET i == CHOOSE j \in good : header[j].name = name
           IN IF header[i].form = "bare" THEN DefaultQValue ELSE header[i].q]

\* The q-value a codings map gives a name: Go's zero value when it has none.
Weight(codings, name) == IF name \in DOMAIN codings THEN codings[name] ELSE 0

\* A comparison that lets a weight of zero through.
acceptsGzip_zeroWeight(header) == Weight(parseEncodings(header), "gzip") >= 0

acceptsGzip(header) == Weight(parseEncodings(header), "gzip") > 0

\* A loop that answers on the first entry that differs.
handleContentType_anyDiffers(contentTypes, h) ==
    IF Len(contentTypes) = 0 THEN TRUE
    ELSE \E i \in 1..Len(contentTypes) :
             contentTypes[i] # ToLower(HeaderGet(h, contentType))

handleContentType(contentTypes, h) ==
    IF Len(contentTypes) = 0 THEN TRUE
    ELSE \E i \in 1..Len(contentTypes) :
             contentTypes[i] = ToLower(HeaderGet(h, contentType))

writeHeader(c) ==
    IF c.w.headerWritten THEN c
    ELSE IF c.w.code = 0 THEN c
    ELSE SinkWriteHeader([c EXCEPT !.w.headerWritten = TRUE], c.w.code)

\* init: id is the instance the pool's Get returns.
init(c, id) ==
    LET c1 == PoolGet(c, id)
        c2 == GzReset(c1, id, c.r)
    IN [c2 EXCEPT !.w.gw = id]

\* A startGzip that binds the compressor and drops what was buffered.
startGzip_dropsBuffer(c, f, id) ==
    IF c.w.gw # 0 THEN Return(c, "startGzip", 0, NoErr)
    ELSE LET c1 == [c EXCEPT !.h = HeaderDel(HeaderSet(@, contentEncoding, "gzip"),
                                             contentLength)]
             c2 == writeHeader(c1)
             c3 == init(c2, id)
             c4 == GzWrite(c3, id, <<>>, f, "startGzip")
         IN [c4 EXCEPT !.w.buf = <<>>, !.w.bufSet = FALSE]

\* startGzip: the error it returns is left in ret.err.
startGzip(c, f, id) ==
    IF c.w.gw # 0 THEN Return(c, "startGzip", 0, NoErr)
    ELSE LET c1 == [c EXCEPT !.h = HeaderDel(HeaderSet(@, contentEncoding, "gzip"),
                                             contentLength)]
             c2 == writeHeader(c1)
             c3 == init(c2, id)
             c4 == GzWrite(c3, id, c3.w.buf, f, "startGzip")
         IN IF c4.ret.err = NoErr /\ c4.ret.n < Len(c4.w.buf)
            THEN Return(c4, "startGzip", 0, ErrShortWrite)
            ELSE [c4 EXCEPT !.w.buf = <<>>, !.w.bufSet = FALSE]

\* A Write that repeats the content-type and encoding test while streaming
\* and goes back to buffering when it fails.
Write_rechecks(c, b, sniff, f, id) ==
    LET c1 == IF c.h[contentType] = Absent
              THEN [c EXCEPT !.h = HeaderSet(@, contentType, sniff)]
              ELSE c
    IN IF /\ c1.w.gw # 0
          /\ handleContentType(c1.w.contentTypes, c1.h)
          /\ HeaderGet(c1.h, contentEncoding) = "gzip"
       THEN GzWrite(c1, c1.w.gw, b, f, "Write")
       ELSE LET c2 == [c1 EXCEPT !.w.buf = @ \o b, !.w.bufSet = TRUE]
                c3 == IF /\ Len(c2.w.buf) >= c2.w.minSize
                         /\ handleContentType(c2.w.contentTypes, c2.h)
                         /\ HeaderGet(c2.h, contentEncoding) = ""
                      THEN [c2 EXCEPT !.w.gzipResponse = TRUE]
                      ELSE c2
            IN IF c3.w.gzipResponse /\ c3.w.gw = 0
               THEN LET c4 == startGzip(c3, f, id)
                    IN IF c4.ret.err # NoErr
                       THEN Return(c4, "Write", 0, c4.ret.err)
                       ELSE Return(c4, "Write", Len(b), NoErr)
               ELSE Return(c3, "Write", Len(b), NoErr)

\* Write(b): sniff is what http.DetectContentType(b) returns.
Write(c, b, sniff, f, id) ==
    LET c1 == IF c.h[contentType] = Absent
              THEN [c EXCEPT !.h = HeaderSet(@, contentType, sniff)]
              ELSE c
    IN IF c1.w.gw # 0 THEN GzWrite(c1, c1.w.gw, b, f, "Write")
       ELSE LET c2 == [c1 EXCEPT !.w.buf = @ \o b, !.w.bufSet = TRUE]
                c3 == IF /\ Len(c2.w.buf) >= c2.w.minSize
                         /\ handleContentType(c2.w.contentTypes, c2.h)
                         /\ HeaderGet(c2.h, contentEncoding) = ""
                      THEN [c2 EXCEPT !.w.gzipResponse = TRUE]
                      ELSE c2
            IN IF c3.w.gzipResponse
               THEN LET c4 == startGzip(c3, f, id)
                    IN IF c4.ret.err # NoErr
                       THEN Return(c4, "Write", 0, c4.ret.err)
                       ELSE Return(c4, "Write", Len(b), NoErr)
               ELSE Return(c3, "Write", Len(b), NoErr)

\* A WriteHeader without the guard: the last call wins.
WriteHeader_lastWins(c, code) ==
    IF c.w.headerWritten THEN c
    ELSE [c EXCEPT !.w.code = code]

WriteHeader(c, code) ==
    IF c.w.code # 0 \/ c.w.headerWritten THEN c
    ELSE [c EXCEPT !.w.code = code]

\* A Close without the deferred calls: an error of gzw.Close() returns before
\* the compressor is put back.
Close_leaksOnError(c, f) ==
    LET c1 == writeHeader(c)
    IN IF c1.w.gw = 0
       THEN IF c1.w.bufSet
            THEN Return(SinkWrite(c1, Raw(c1.w.buf), f), "Close", 0,
                        IF f = "err" THEN ErrCloseWrite ELSE NoErr)
            ELSE Return(c1, "Close", 0, NoErr)
       ELSE LET id == c1.w.gw
                c2 == GzClose([c1 EXCEPT !.w.gw = 0], id, f, "Close")
            IN IF c2.ret.err # NoErr THEN c2
               ELSE PoolPut(GzReset(c2, id, 0), id)

\* Close: the deferred calls run last registered first, after the explicit
\* gzw.Close(): gzw.Close() again, gzw.Reset(ioutil.Discard), then Put.
Close(c, f) ==
    LET c1 == writeHeader(c)
    IN IF c1.w.gw = 0
       THEN IF c1.w.bufSet
            THEN Return(SinkWrite(c1, Raw(c1.w.buf), f), "Close", 0,
                        IF f = "err" THEN ErrCloseWrite ELSE NoErr)
            ELSE Return(c1, "Close", 0, NoErr)
       ELSE LET id == c1.w.gw
                c2 == GzClose([c1 EXCEPT !.w.gw = 0], id, f, "Close")
                c3 == GzClose(c2, id, "ok", "Close")
                c4 == GzReset(c3, id, 0)
                c5 == PoolPut(c4, id)
            IN Return(c5, "Close", 0, c2.ret.err)

flushEarly(c) ==
    IF "Flusher" \notin c.s.caps THEN c
    ELSE LET c1 == IF /\ HeaderGet(c.h, contentEncoding) = "gzip"
                      /\ handleContentType(c.w.contentTypes, c.h)
                   THEN [c EXCEPT !.h = HeaderDel(@, contentLength),
                                  !.w.gzipResponse = TRUE]
                   ELSE c
         IN SinkFlush(writeHeader(c1))

\* A Flush that takes the sink for an http.Flusher without asking.
Flush_uncheckedFlusher(c) ==
    IF c.w.gw # 0
    THEN SinkFlush(GzFlush(c, c.w.gw))
    ELSE IF "Flusher" \in c.s.caps THEN flushEarly(c) ELSE c

Flush(c) ==
    IF c.w.gw # 0
    THEN LET c1 == GzFlush(c, c.w.gw)
         IN IF "Flusher" \in c.s.caps THEN SinkFlush(c1) ELSE c1
    ELSE IF "Flusher" \in c.s.caps THEN flushEarly(c) ELSE c

\* CloseNotify: the type assertion panics on an underlying writer that is no
\* http.CloseNotifier.
CloseNotify(c) ==
    IF "CloseNotifier" \in c.s.caps THEN Return(c, "CloseNotify", 0, NoErr)
    ELSE Return(c, "CloseNotify", 0, Panic)

\* ------------------------------------------------- gzip_responsewriter.go
rwStartGzip(c, f, id) ==
    LET c1 == [c EXCEPT !.h = HeaderDel(HeaderSet(@, contentEncoding, "gzip"),
                                        contentLength)]
        c2 == IF c1.w.code # 0 THEN SinkWriteHeader(c1, c1.w.code) ELSE c1
        c3 == init(c2, id)
        c4 == GzWrite(c3, id, c3.w.buf, f, "startGzip")
    IN IF c4.ret.err = NoErr /\ c4.ret.n < Len(c4.w.buf)
       THEN Return(c4, "startGzip", 0, ErrShortWrite)
       ELSE [c4 EXCEPT !.w.buf = <<>>, !.w.bufSet = FALSE]

\* Write(b): append leaves a nil buffer nil when b is empty.
rwWrite(c, b, sniff, f, id) ==
    LET c1 == IF c.h[contentType] = Absent
              THEN [c EXCEPT !.h = HeaderSet(@, contentType, sniff)]
              ELSE c
    IN IF c1.w.gw # 0 THEN GzWrite(c1, c1.w.gw, b, f, "Write")
       ELSE LET c2 == [c1 EXCEPT !.w.buf = @ \o b,
                                 !.w.bufSet = @ \/ Len(b) > 0]
            IN IF /\ Len(c2.w.buf) >= c2.w.minSize
                  /\ handleContentType(c2.w.contentTypes, c2.h)
                  /\ HeaderGet(c2.h, contentEncoding) = ""
               THEN LET c3 == rwStartGzip(c2, f, id)
                    IN IF c3.ret.err # NoErr
                       THEN Return(c3, "Write", 0, c3.ret.err)
                       ELSE Return(c3, "Write", Len(b), NoErr)
               ELSE Return(c2, "Write", Len(b), NoErr)

rwWriteHeader(c, code) ==
    IF c.w.code = 0 THEN [c EXCEPT !.w.code = code] ELSE c

rwClose(c, f) ==
    IF c.w.gw = 0
    THEN LET c1 == IF c.w.code # 0 THEN SinkWriteHeader(c, c.w.code) ELSE c
         IN IF c1.w.bufSet
            THEN Return(SinkWrite(c1, Raw(c1.w.buf), f), "Close", 0,
                        IF f = "err" THEN ErrCloseWrite ELSE NoErr)
            ELSE Return(c1, "Close", 0, NoErr)
    ELSE LET id == c.w.gw
             c1 == GzClose(c, id, f, "Close")
             c2 == PoolPut(c1, id)
         IN [c2 EXCEPT !.w.gw = 0]

rwFlush(c) ==
    IF c.w.gw = 0 THEN c
    ELSE LET c1 == GzFlush(c, c.w.gw)
         IN IF "Flusher" \in c.s.caps THEN SinkFlush(c1) ELSE c1

rwHijack(c) ==
    IF "Hijacker" \in c.s.caps
    THEN Return([c EXCEPT !.s.hijacked = TRUE], "Hijack", 0, NoErr)
    ELSE Return(c, "Hijack", 0, ErrNoHijacker)

\* ------------------------------------------- gzip_proto_responsewriter.go
\* h1.Hijack: the type assertion panics on an underlying writer that is no
\* http.Hijacker.
h1Hijack(c) ==
    IF "Hijacker" \in c.s.caps
    THEN Return([c EXCEPT !.s.hijacked = TRUE], "Hijack", 0, NoErr)
    ELSE Return(c, "Hijack", 0, Panic)

NewImpl == "gzip.go"
OldImpl == "gzip_responsewriter.go"

\* The optional interfaces the methods of *GzipResponseWriter satisfy.
BaseMethods(impl) ==
    IF impl = NewImpl THEN {"Flusher", "CloseNotifier"}
    ELSE {"Flusher", "Hijacker"}

\* The optional interfaces the value handed to the handler satisfies: its own
\* methods and those promoted from the embedded *GzipResponseWriter.
MethodSet(handed, impl) ==
    CASE handed = "h1" -> BaseMethods(impl) \cup {"Hijacker", "ReaderFrom"}
      [] handed = "h2" -> BaseMethods(impl)
      [] OTHER -> BaseMethods(impl)

\* -------------------------------------------------------- gzip_handler.go
\* What a request at rest looks like: the zero GzipResponseWriter, an empty
\* header map, an untouched sink.
ZeroWriter ==
    [gw |-> 0, code |-> 0, headerWritten |-> FALSE, minSize |-> 0,
     buf |-> <<>>, bufSet |-> FALSE, contentTypes |-> <<>>,
     gzipResponse |-> FALSE]

EmptyHeader ==
    [k \in {vary, contentType, contentEncoding, contentLength} |-> Absent]

NewSink(caps) ==
    [caps |-> caps, committed |-> FALSE, status |-> 0, snap |-> EmptyHeader,
     wire |-> <<>>, syncs |-> 0, whCalls |-> 0, whCodes |-> {}, flushes |-> 0,
     hijacked |-> FALSE]

NoHistory ==
    [written |-> 0, faults |-> 0, acq |-> 0, rel |-> 0, hdrOps |-> 0,
     flushCalls |-> 0, closes |-> 0, hclosed |-> FALSE, triggered |-> FALSE,
     thresholdHit |-> FALSE, everAllowed |-> FALSE, hCE |-> Absent,
     firstCode |-> 0, fwdLate |-> FALSE, aborted |-> FALSE]

NoReturn == [op |-> "", err |-> NoErr]

\* The protocol switch: which value the handler gets for the writer.
protoGW(proto) ==
    CASE proto \in {protoHTTP11, protoHTTP11TLS} -> "h1"
      [] proto = protoHTTP20 -> "h2"
      [] OTHER -> "gw"

\* A closure that adds Vary only on the branch that wraps the writer.
ServeHTTP_varyWhenWrapped(r) ==
    /\ mw[r].pc = "new"
    /\ IF acceptsGzip(mw[r].ae)
       THEN /\ hdr' = [hdr EXCEPT ![r] = HeaderAdd(@, vary, acceptEncoding)]
            /\ gzw' = [gzw EXCEPT ![r] =
                          [ZeroWriter EXCEPT !.minSize = config.minSize,
                                             !.contentTypes = config.contentTypes]]
            /\ mw' = [mw EXCEPT ![r].pc = "handler",
                                ![r].handed = protoGW(mw[r].proto)]
       ELSE /\ hdr' = hdr
            /\ gzw' = gzw
            /\ mw' = [mw EXCEPT ![r].pc = "handler", ![r].handed = "raw"]
    /\ UNCHANGED <<sink, ret, hist, pool, comp, config, env>>

\* The handler closure up to the call of the inner handler: Vary is added,
\* and a request that accepts gzip gets a GzipResponseWriter behind the
\* wrapper of its protocol; any other gets the writer it came with.
ServeHTTP(r) ==
    /\ mw[r].pc = "new"
    /\ hdr' = [hdr EXCEPT ![r] = HeaderAdd(@, vary, acceptEncoding)]
    /\ IF acceptsGzip(mw[r].ae)
       THEN /\ gzw' = [gzw EXCEPT ![r] =
                          [ZeroWriter EXCEPT !.minSize = config.minSize,
                                             !.contentTypes = config.contentTypes]]
            /\ mw' = [mw EXCEPT ![r].pc = "handler",
                                ![r].handed = protoGW(mw[r].proto)]
       ELSE /\ gzw' = gzw
            /\ mw' = [mw EXCEPT ![r].pc = "handler", ![r].handed = "raw"]
    /\ UNCHANGED <<sink, ret, hist, pool, comp, config, env>>

\* The inner handler is running with a compressing writer it has not closed.
InHandler(r) ==
    /\ mw[r].pc = "handler"
    /\ mw[r].handed # "raw"
    /\ ~hist[r].hclosed

Faults(r) == IF hist[r].faults < env.faults THEN {"ok", "err", "short"} ELSE {"ok"}

\* What http.DetectContentType can answer.
SniffTypes == {"text/plain; charset=utf-8"}

\* The allow-list's test, stated on its own for the histories below.
Allowed(types, ct) ==
    types = <<>> \/ ToLower(ct) \in {types[i] : i \in 1..Len(types)}

\* The inner handler calls Write with n more bytes.
HandlerWrite(r) ==
    /\ InHandler(r)
    /\ \E n \in 0..MaxChunk, sniff \in SniffTypes, f \in Faults(r),
          id \in PoolChoices(pool) :
        /\ hist[r].written + n <= env.bytes
        /\ LET b == Chunk(hist[r].written, n)
               c == Ctx(r)
               ct == IF hdr[r][contentType] = Absent THEN sniff
                     ELSE hdr[r][contentType]
               hit == /\ hist[r].written + n >= config.minSize
                      /\ HeaderGet(hdr[r], contentEncoding) = ""
               c1 == [c EXCEPT !.g.written = @ + n,
                               !.g.fwdLate =
                                   @ \/ (/\ c.w.gw # 0 /\ n > 0
                                        /\ HeaderGet(c.h, contentEncoding) # "gzip"),
                               !.g.thresholdHit = @ \/ hit,
                               !.g.triggered =
                                   @ \/ (hit /\ Allowed(config.contentTypes, ct)),
                               !.g.everAllowed =
                                   @ \/ Allowed(config.contentTypes, ct)]
               c2 == IF config.impl = NewImpl
                     THEN Write(c1, b, sniff, f, id)
                     ELSE rwWrite(c1, b, sniff, f, id)
           IN Commit(r, [c2 EXCEPT !.g.aborted =
                                       @ \/ c2.ret.err = ErrShortWrite])
    /\ UNCHANGED <<mw, config, env>>

StatusCodes == {200, 404}

\* The inner handler calls WriteHeader.
HandlerWriteHeader(r) ==
    /\ InHandler(r)
    /\ \E code \in StatusCodes :
        LET c == [Ctx(r) EXCEPT !.g.firstCode = IF @ = 0 THEN code ELSE @]
        IN Commit(r, IF config.impl = NewImpl
                     THEN WriteHeader(c, code)
                     ELSE rwWriteHeader(c, code))
    /\ UNCHANGED <<mw, config, env>>

\* The inner handler calls Flush.
HandlerFlush(r) ==
    /\ InHandler(r)
    /\ hist[r].flushCalls < env.flushes
    /\ LET c == [Ctx(r) EXCEPT !.g.flushCalls = @ + 1]
       IN Commit(r, IF config.impl = NewImpl THEN Flush(c) ELSE rwFlush(c))
    /\ UNCHANGED <<mw, config, env>>

\* The values a handler gives the headers the writer reads.
HeaderValues(k) ==
    CASE k = contentType -> {"Text/Plain", "application/json"}
      [] k = contentEncoding -> {"gzip", "br"}
      [] OTHER -> {"10"}

\* The inner handler sets or deletes a header of the response.
HandlerSetHeader(r) ==
    /\ InHandler(r)
    /\ hist[r].hdrOps < env.hdrOps
    /\ \E k \in {contentType, contentEncoding, contentLength} :
       \E v \in HeaderValues(k) :
        /\ hdr' = [hdr EXCEPT ![r] = HeaderSet(@, k, v)]
        /\ hist' = [hist EXCEPT
               ![r].hdrOps = @ + 1,
               ![r].hCE = IF k = contentEncoding THEN v ELSE @,
               ![r].everAllowed =
                   @ \/ (k = contentType /\ Allowed(config.contentTypes, v))]
    /\ UNCHANGED <<mw, gzw, sink, ret, pool, comp, config, env>>

\* The inner handler deletes a header of the response: w.Header().Del(k).
HandlerDelHeader(r) ==
    /\ InHandler(r)
    /\ hist[r].hdrOps < env.hdrOps
    /\ \E k \in {contentType, contentEncoding, contentLength} :
        /\ hdr' = [hdr EXCEPT ![r] = HeaderDel(@, k)]
        /\ hist' = [hist EXCEPT
               ![r].hdrOps = @ + 1,
               ![r].hCE = IF k = contentEncoding THEN Absent ELSE @]
    /\ UNCHANGED <<mw, gzw, sink, ret, pool, comp, config, env>>

\* The inner handler closes the writer itself; it makes no call on it after.
HandlerClose(r) ==
    /\ InHandler(r)
    /\ \E f \in Faults(r) :
        LET c == [Ctx(r) EXCEPT !.g.closes = @ + 1, !.g.hclosed = TRUE]
        IN Commit(r, IF config.impl = NewImpl THEN Close(c, f) ELSE rwClose(c, f))
    /\ UNCHANGED <<mw, config, env>>

\* The Hijack the handed value answers with: h1's own method, else the one
\* promoted from the embedded writer.
Hijack(c, handed) == IF handed = "h1" THEN h1Hijack(c) ELSE rwHijack(c)

\* The inner handler finds the writer to be an http.Hijacker and calls it; a
\* panic unwinds the handler.
HandlerHijack(r) ==
    /\ InHandler(r)
    /\ "Hijacker" \in MethodSet(mw[r].handed, config.impl)
    /\ ret[r].op # "Hijack"
    /\ LET c == Hijack(Ctx(r), mw[r].handed)
       IN /\ Commit(r, c)
          /\ mw' = [mw EXCEPT ![r].pc =
                       IF c.ret.err = Panic THEN "panicked" ELSE @]
    /\ UNCHANGED <<config, env>>

\* The inner handler finds the writer to be an http.CloseNotifier and calls it.
HandlerCloseNotify(r) ==
    /\ InHandler(r)
    /\ "CloseNotifier" \in MethodSet(mw[r].handed, config.impl)
    /\ ret[r].op # "CloseNotify"
    /\ LET c == CloseNotify(Ctx(r))
       IN /\ Commit(r, c)
          /\ mw' = [mw EXCEPT ![r].pc =
                       IF c.ret.err = Panic THEN "panicked" ELSE @]
    /\ UNCHANGED <<config, env>>

\* A handler that got the original writer writes to it directly.
HandlerRawWrite(r) ==
    /\ mw[r].pc = "handler"
    /\ mw[r].handed = "raw"
    /\ \E n \in 1..MaxChunk :
        /\ hist[r].written + n <= env.bytes
        /\ LET c == [Ctx(r) EXCEPT !.g.written = @ + n]
           IN Commit(r, SinkWrite(c, Raw(Chunk(hist[r].written, n)), "ok"))
    /\ UNCHANGED <<mw, config, env>>

\* h.ServeHTTP returns. Without a compressing writer the closure is done.
HandlerReturn(r) ==
    /\ mw[r].pc = "handler"
    /\ mw' = [mw EXCEPT ![r].pc = IF mw[r].handed = "raw" THEN "done" ELSE "returned"]
    /\ UNCHANGED <<gzw, hdr, sink, ret, hist, pool, comp, config, env>>

\* h.ServeHTTP panics.
HandlerPanic(r) ==
    /\ mw[r].pc = "handler"
    /\ mw' = [mw EXCEPT ![r].pc = IF mw[r].handed = "raw" THEN "done" ELSE "panicked"]
    /\ UNCHANGED <<gzw, hdr, sink, ret, hist, pool, comp, config, env>>

\* A Close that is called at the end of the closure instead of deferred: a
\* panic passes it by.
deferRuns_onReturnOnly(pc) == pc = "returned"

\* Whether the deferred gw.Close() runs at this exit of the closure: a
\* deferred call runs on return and on panic alike.
deferRuns(pc) == pc \in {"returned", "panicked"}

\* The closure is left, by return or by panic, and defer gw.Close() runs.
DeferredClose(r) ==
    /\ mw[r].pc \in {"returned", "panicked"}
    /\ IF deferRuns(mw[r].pc)
       THEN /\ \E f \in Faults(r) :
                LET c == [Ctx(r) EXCEPT !.g.closes = @ + 1]
                IN Commit(r, IF config.impl = NewImpl
                             THEN Close(c, f) ELSE rwClose(c, f))
            /\ mw' = [mw EXCEPT ![r].pc = "done", ![r].closes = @ + 1,
                                ![r].closedAfter = mw[r].pc]
       ELSE /\ mw' = [mw EXCEPT ![r].pc = "done"]
            /\ UNCHANGED <<gzw, hdr, sink, ret, hist, pool, comp>>
    /\ UNCHANGED <<config, env>>

\* ------------------------------------------------------- specifications
Codings == {"gzip", "deflate"}

QValues == {0, 500}

Tokens ==
    [name : Codings, form : {"bare", "bad"}, q : {0}]
        \cup [name : Codings, form : {"q"}, q : QValues]

\* The Accept-Encoding headers: each coding named at most once.
Headers ==
    {<<>>} \cup {<<t>> : t \in Tokens}
        \cup {<<t, u>> : t \in {x \in Tokens : x.name = "gzip"},
                          u \in {x \in Tokens : x.name = "deflate"}}
        \cup {<<u, t>> : t \in {x \in Tokens : x.name = "gzip"},
                          u \in {x \in Tokens : x.name = "deflate"}}

GzipOnly == <<[name |-> "gzip", form |-> "bare", q |-> 0]>>

Protos == {protoHTTP11, protoHTTP11TLS, protoHTTP20, "HTTP/1.0"}

Capabilities == {"Flusher", "Hijacker", "ReaderFrom", "CloseNotifier"}

\* The lists the ContentTypes option is given.
TypeLists ==
    {<<>>, <<"Text/Plain">>, <<"application/json", "text/plain; charset=utf-8">>}

\* The requests in `active` have arrived, with a header of aes, a protocol of
\* protos and an underlying writer with capabilities of capsets; the
\* middleware was built from one validated config.
InitWith(active, aes, protos, capsets, minSizes, typeLists, impls, limits) ==
    /\ \E ae \in aes, proto \in protos :
           mw = [r \in Reqs |->
                    [pc |-> IF r \in active THEN "new" ELSE "off", ae |-> ae,
                     proto |-> proto, handed |-> "none", closes |-> 0,
                     closedAfter |-> ""]]
    /\ gzw = [r \in Reqs |-> ZeroWriter]
    /\ hdr = [r \in Reqs |-> EmptyHeader]
    /\ \E caps \in capsets : sink = [r \in Reqs |-> NewSink(caps)]
    /\ ret = [r \in Reqs |-> NoReturn]
    /\ hist = [r \in Reqs |-> NoHistory]
    /\ pool = [idle |-> {}, created |-> 0, live |-> {}, bad |-> FALSE]
    /\ comp = [id \in CompIds |-> FreshWriter(0)]
    /\ config \in [minSize : minSizes,
                   contentTypes : {LowerAll(l) : l \in typeLists},
                   impl : impls]
    /\ env = limits

\* One request that accepts gzip, and everything its handler can do with the
\* compressing writer.
Init ==
    InitWith({1}, {GzipOnly}, {"HTTP/1.0"}, {{}, {"Flusher"}},
             0..MaxMinSize, TypeLists, {NewImpl, OldImpl},
             [bytes |-> MaxBytes, faults |-> 0, flushes |-> MaxFlush,
              hdrOps |-> MaxHdrOps])

Next ==
    \E r \in {1} :
        \/ ServeHTTP(r)
        \/ HandlerWrite(r)
        \/ HandlerWriteHeader(r)
        \/ HandlerFlush(r)
        \/ HandlerSetHeader(r)
        \/ HandlerClose(r)
        \/ HandlerReturn(r)
        \/ DeferredClose(r)

Spec == Init /\ [][Next]_vars

\* One request with any Accept-Encoding header, protocol and underlying
\* writer: what the closure hands to the handler.
InitMW ==
    InitWith({1}, Headers, Protos, SUBSET Capabilities, {1}, {<<>>},
             {NewImpl, OldImpl},
             [bytes |-> 1, faults |-> 0, flushes |-> 0, hdrOps |-> 0])

NextMW ==
    \E r \in {1} :
        \/ ServeHTTP(r)
        \/ HandlerWrite(r)
        \/ HandlerRawWrite(r)
        \/ HandlerHijack(r)
        \/ HandlerCloseNotify(r)
        \/ HandlerReturn(r)
        \/ HandlerPanic(r)
        \/ DeferredClose(r)

SpecMW == InitMW /\ [][NextMW]_vars

\* NReq concurrent requests at one compression level, sharing its pool.
InitPool ==
    InitWith(Reqs, {GzipOnly}, {"HTTP/1.0"}, {{}}, {1}, {<<>>},
             {NewImpl, OldImpl},
             [bytes |-> 1, faults |-> MaxFaults, flushes |-> 0, hdrOps |-> 0])

NextPool ==
    \E r \in Reqs :
        \/ ServeHTTP(r)
        \/ HandlerWrite(r)
        \/ HandlerReturn(r)
        \/ DeferredClose(r)

SpecPool == InitPool /\ [][NextPool]_vars

\* One request that accepts gzip, on a sink and a compressor whose writes can
\* fail or come back short, with a handler that also deletes headers.
InitIO ==
    InitWith({1}, {GzipOnly}, {"HTTP/1.0"}, {{}}, 1..MaxMinSize, {<<>>},
             {NewImpl, OldImpl},
             [bytes |-> MaxBytes, faults |-> MaxFaults, flushes |-> 0,
              hdrOps |-> MaxHdrOps])

NextIO ==
    \E r \in {1} :
        \/ ServeHTTP(r)
        \/ HandlerWrite(r)
        \/ HandlerDelHeader(r)
        \/ HandlerClose(r)
        \/ HandlerReturn(r)
        \/ DeferredClose(r)

SpecIO == InitIO /\ [][NextIO]_vars

\* ----------------------------------------------------------------- claims
\* The body the handler of request r has written so far, in write order.
Stream(r) == [i \in 1..hist[r].written |-> i]

Bytes(items) == [i \in 1..Len(items) |-> items[i].b]

IsGz(x) == x.t = "gz"

IsRaw(x) == x.t = "raw"

IsTrailer(x) == x.t = "gztrl"

\* The bytes request r's sink got through a gzip writer, and those it got raw.
Compressed(r) == Bytes(SelectSeq(sink[r].wire, IsGz))

Uncompressed(r) == Bytes(SelectSeq(sink[r].wire, IsRaw))

\* The gzip stream on the wire of request r is finished: one trailer, last.
GzipFinished(r) ==
    /\ Len(SelectSeq(sink[r].wire, IsTrailer)) = 1
    /\ sink[r].wire[Len(sink[r].wire)].t = "gztrl"

\* C1: when some Write of a run made of WriteHeader, Write and header calls
\* (no Flush, no downstream error) brought the body to minSize with an allowed
\* content type and no Content-Encoding, then after Close the bytes fed to
\* the compressor are the written bytes in write order, each once, no body
\* byte reached the sink raw, the gzip stream is finished, and the response
\* went out with Content-Encoding: gzip and no Content-Length.
C1_CompressedStreamIsBody ==
    \A r \in Reqs :
        (hist[r].closes >= 1 /\ hist[r].triggered /\ hist[r].flushCalls = 0)
        => /\ Compressed(r) = Stream(r)
           /\ Uncompressed(r) = <<>>
           /\ GzipFinished(r)
           /\ gzw[r].gw = 0
           /\ sink[r].snap[contentEncoding] = "gzip"
           /\ sink[r].snap[contentLength] = Absent

\* C1's case: a body of three bytes that crossed a minSize of two at a later
\* Write, so that a buffered prefix was flushed into the compressor, closed.
C1_Witness ==
    \E r \in Reqs :
        /\ mw[r].pc = "done"
        /\ hist[r].triggered
        /\ hist[r].flushCalls = 0
        /\ config.minSize = 2
        /\ hist[r].written = 3
        /\ Compressed(r) = <<1, 2, 3>>
        /\ config.contentTypes # <<>>

\* C2: after a run of WriteHeader, Write and Flush calls that wrote fewer than
\* minSize bytes and one Close, the sink holds exactly the written bytes,
\* uncompressed, no compressor was acquired and Content-Encoding is what the
\* handler left it.
C2_SmallBodyUncompressed ==
    \A r \in Reqs :
        (mw[r].pc = "done" /\ hist[r].closes = 1 /\ mw[r].handed # "raw"
         /\ hist[r].written < config.minSize)
        => /\ sink[r].wire = Raw(Stream(r))
           /\ hist[r].acq = 0
           /\ hdr[r][contentEncoding] = hist[r].hCE

\* C2 with the handler leaving Content-Encoding alone: the part of the claim
\* the code keeps.
C2_SmallBodyNoEncodingSet ==
    \A r \in Reqs :
        (mw[r].pc = "done" /\ hist[r].closes = 1 /\ mw[r].handed # "raw"
         /\ hist[r].written < config.minSize /\ hist[r].hCE # "gzip")
        => /\ sink[r].wire = Raw(Stream(r))
           /\ hist[r].acq = 0
           /\ hdr[r][contentEncoding] = hist[r].hCE

\* C3: for a request that accepts gzip the closure calls Close exactly once,
\* and not before the inner handler has finished, by return or by panic.
C3_CloseOnceAfterHandler ==
    \A r \in Reqs :
        mw[r].handed \notin {"none", "raw"}
        => /\ mw[r].pc \in {"handler", "returned", "panicked"} => mw[r].closes = 0
           /\ mw[r].pc = "done"
              => mw[r].closes = 1 /\ mw[r].closedAfter \in {"returned", "panicked"}

\* C3's case: a handler that panicked, and the Close that ran after it.
C3_Witness ==
    \E r \in Reqs :
        /\ mw[r].pc = "done"
        /\ mw[r].closedAfter = "panicked"
        /\ mw[r].closes = 1
        /\ hist[r].written > 0
        /\ sink[r].wire # <<>>

\* C4: a second Close on a writer changes nothing a client or the pool can
\* see: no byte more on the sink, no WriteHeader call more on it, and no
\* compressor put back.
C4_SecondCloseNoEffect ==
    [][\A r \in Reqs :
          (hist[r].closes = 1 /\ hist'[r].closes = 2)
          => /\ sink'[r] = sink[r]
             /\ hist'[r].rel = hist[r].rel
             /\ pool' = pool]_vars

\* The compressors checked out: acquired and not yet put back.
CheckedOut == {gzw[r].gw : r \in {q \in Reqs : gzw[q].gw # 0}}

\* The requests that may hold a compressor: begun and not yet closed.
InFlight == {r \in Reqs : mw[r].pc \in {"handler", "returned", "panicked"}}

\* C5: with NReq concurrent requests on one pool, never more compressors are
\* checked out than requests are in flight (so never more than NReq), no two
\* writers hold the same one, a writer acquires at most one, nothing is put
\* back twice or handed out twice, and when a request's Close has returned
\* the compressor it acquired is back in the pool, put there once, also when
\* flushing the buffer into it had failed.
C5_PoolDiscipline ==
    /\ pool.live = CheckedOut
    /\ Cardinality(pool.live) <= Cardinality(InFlight)
    /\ Cardinality(pool.live) <= NReq
    /\ pool.idle \cap pool.live = {}
    /\ ~pool.bad
    /\ \A r, q \in Reqs : (r # q /\ gzw[r].gw # 0) => gzw[r].gw # gzw[q].gw
    /\ \A r \in Reqs :
        /\ hist[r].acq <= 1
        /\ hist[r].rel <= hist[r].acq
        /\ gzw[r].gw # 0 => hist[r].acq = 1 /\ hist[r].rel = 0
        /\ mw[r].pc = "done" => hist[r].rel = hist[r].acq /\ gzw[r].gw = 0

\* C5's case: a request whose flush of the buffer into the compressor was
\* short (the buffer was kept) is done and has put its compressor back, while
\* another request holds a compressor of the same pool.
C5_Witness ==
    \E r, q \in Reqs :
        /\ r # q
        /\ mw[r].pc = "done"
        /\ hist[r].acq = 1
        /\ hist[r].rel = 1
        /\ hist[r].faults = 1
        /\ gzw[r].bufSet
        /\ gzw[q].gw # 0

\* The header names gzip with a weight above zero; no weight counts as 1.0.
GzipAccepted(header) ==
    \E i \in 1..Len(header) :
        /\ header[i].name = "gzip"
        /\ \/ header[i].form = "bare"
           \/ header[i].form = "q" /\ header[i].q > 0

\* C6: the inner handler gets the compressing writer exactly when the
\* request's Accept-Encoding lists gzip with a weight above zero; otherwise it
\* gets the writer the request came with, and for that request no writer is
\* built, no compressor acquired, no Close run and no header but Vary set.
C6_WrapIffGzipAccepted ==
    \A r \in Reqs :
        mw[r].pc \notin {"new", "off"}
        => /\ mw[r].handed # "raw" <=> GzipAccepted(mw[r].ae)
           /\ mw[r].handed = "raw"
              => /\ gzw[r] = ZeroWriter
                 /\ hist[r].acq = 0
                 /\ hist[r].closes = 0
                 /\ mw[r].closes = 0
                 /\ hdr[r] = HeaderSet(EmptyHeader, vary, acceptEncoding)

\* C6's case: gzip;q=0 beside another coding, and the handler has written to
\* the writer the request came with and returned.
C6_Witness ==
    \E r \in Reqs :
        /\ mw[r].pc = "done"
        /\ mw[r].handed = "raw"
        /\ \E i \in 1..Len(mw[r].ae) :
               mw[r].ae[i] = [name |-> "gzip", form |-> "q", q |-> 0]
        /\ Len(mw[r].ae) = 2
        /\ Uncompressed(r) = <<1>>

\* The optional interfaces of the value the handler was handed.
HandedMethods(r) ==
    IF mw[r].handed = "raw" THEN sink[r].caps
    ELSE MethodSet(mw[r].handed, config.impl)

\* C7: what the handler is handed has each of Flush, Hijack, ReadFrom and
\* CloseNotify exactly when the underlying writer has it, and over an
\* underlying writer with none of them it is the bare compressing writer.
C7_CapabilitiesPreserved ==
    \A r \in Reqs :
        mw[r].pc = "handler"
        => /\ HandedMethods(r) = sink[r].caps
           /\ (sink[r].caps = {} /\ mw[r].handed # "raw") => mw[r].handed = "gw"

\* C8: Hijack on the handed writer over an underlying writer that is no
\* Hijacker returns an error and no connection; it does not panic.
C8_HijackUnsupportedIsError ==
    \A r \in Reqs :
        (ret[r].op = "Hijack" /\ mw[r].handed # "raw"
         /\ "Hijacker" \notin sink[r].caps)
        => /\ ret[r].err = ErrNoHijacker
           /\ ~sink[r].hijacked
           /\ mw[r].pc # "panicked"

\* C9: a Flush on a writer that is still buffering, over a sink that can
\* Flush, with the content type allowed and no Content-Encoding, starts the
\* streaming there: a compressor is acquired, the buffered bytes are written
\* to it, the buffer is emptied and the sink is flushed.
C9_EarlyFlushStartsStreaming ==
    [][\A r \in Reqs :
          (/\ hist'[r].flushCalls = hist[r].flushCalls + 1
           /\ gzw[r].gw = 0
           /\ hist[r].written > 0
           /\ "Flusher" \in sink[r].caps
           /\ HeaderGet(hdr[r], contentEncoding) = ""
           /\ Allowed(config.contentTypes, HeaderGet(hdr[r], contentType)))
          => /\ gzw'[r].gw # 0
             /\ hist'[r].acq = hist[r].acq + 1
             /\ gzw'[r].buf = <<>>
             /\ Bytes(SelectSeq(sink'[r].wire, IsGz)) = Stream(r)
             /\ sink'[r].flushes = sink[r].flushes + 1]_vars

\* C9, the part the code keeps: that Flush does reach the sink.
C9_EarlyFlushReachesSink ==
    [][\A r \in Reqs :
          (/\ hist'[r].flushCalls = hist[r].flushCalls + 1
           /\ gzw[r].gw = 0
           /\ "Flusher" \in sink[r].caps
           /\ config.impl = NewImpl)
          => sink'[r].flushes = sink[r].flushes + 1]_vars

\* C10: with a non-empty allow-list, while the lower-cased Content-Type has
\* never been a member of it, the writer is not streaming, has acquired no
\* compressor and has not decided to compress, and its first Close writes the
\* whole body to the sink uncompressed. With an empty allow-list every content
\* type is allowed: a Write that brings the body to minSize with no
\* Content-Encoding set starts the compressor whatever the type.
C10_AllowListGatesStreaming ==
    \A r \in Reqs :
        /\ (config.contentTypes # <<>> /\ ~hist[r].everAllowed)
           => /\ gzw[r].gw = 0
              /\ hist[r].acq = 0
              /\ ~gzw[r].gzipResponse
              /\ hist[r].closes = 1 => sink[r].wire = Raw(Stream(r))
        /\ (config.contentTypes = <<>> /\ hist[r].thresholdHit)
           => hist[r].acq >= 1

\* C10's case: a body that reached minSize under an allow-list its content
\* type is not in, closed and written out raw.
C10_Witness ==
    \E r \in Reqs :
        /\ config.contentTypes # <<>>
        /\ ~hist[r].everAllowed
        /\ hdr[r][contentType] # Absent
        /\ config.minSize > 0
        /\ hist[r].written > config.minSize
        /\ hist[r].closes = 1
        /\ Uncompressed(r) = Stream(r)

\* C11: the writer passes to the sink's WriteHeader no code but the one of the
\* first WriteHeader call, and once a code is recorded or the writer has
\* emitted the status line (headerWritten), no step changes the recorded
\* code; the WriteHeader call that records a code leaves the sink untouched.
C11_FirstStatusCodeWins ==
    [][\A r \in Reqs :
         /\ (gzw[r].code # 0 \/ gzw[r].headerWritten)
                => gzw'[r].code = gzw[r].code
         /\ gzw'[r].code # gzw[r].code
                => (sink'[r] = sink[r] /\ gzw'[r].code = hist'[r].firstCode)
         /\ sink'[r].whCodes \subseteq ({hist'[r].firstCode} \ {0})
         /\ sink'[r].whCalls > 0 => sink'[r].status \in {200, hist'[r].firstCode}
      ]_vars

\* C11's case: the handler called WriteHeader(404) before anything went out,
\* the body was compressed and the response is closed: the sink was given 404
\* and sent it.
C11_Witness ==
    \E r \in Reqs :
        /\ mw[r].pc = "done"
        /\ hist[r].firstCode = 404
        /\ sink[r].whCodes = {404}
        /\ sink[r].status = 404
        /\ Len(Compressed(r)) > 0

\* C12: a Write or Close during which the compressor or the sink failed a
\* write, or took fewer bytes than given without an error, returns a non-nil
\* error.
C12_DownstreamErrorReturned ==
    [][\A r \in Reqs :
         hist'[r].faults > hist[r].faults => ret'[r].err # NoErr]_vars

\* C13: whatever the request's Accept-Encoding header, the step by which the
\* closure reaches the inner handler adds Accept-Encoding to the response's
\* Vary header, and from then on the header carries it.
C13_VaryAlwaysAdded ==
    [][\A r \in Reqs :
         /\ (mw[r].pc = "new" /\ mw'[r].pc # "new")
                => /\ mw'[r].pc = "handler"
                   /\ hdr'[r][vary] = HeaderAdd(hdr[r], vary, acceptEncoding)[vary]
         /\ mw'[r].pc \in {"handler", "returned", "panicked", "done"}
                => hdr'[r][vary] = acceptEncoding
      ]_vars

\* C13's case: a request that refuses gzip (q=0) whose handler runs on the
\* writer it came with, Vary: Accept-Encoding already in the header map.
C13_Witness ==
    \E r \in Reqs :
        /\ mw[r].pc = "handler"
        /\ mw[r].handed = "raw"
        /\ ~acceptsGzip(mw[r].ae)
        /\ Weight(parseEncodings(mw[r].ae), "deflate") > 0
        /\ hdr[r][vary] = acceptEncoding
        /\ hist[r].written = 0

\* Compressed output is on the wire of request r.
OnWireGzip(r) ==
    \/ \E i \in 1..Len(sink[r].wire) : sink[r].wire[i].t # "raw"
    \/ sink[r].syncs > 0

\* C14: whenever compressed bytes are on the wire, the headers the sink
\* committed carried Content-Encoding: gzip and no Content-Length.
C14_EncodingSetBeforeCommit ==
    \A r \in Reqs :
        OnWireGzip(r) => /\ sink[r].snap[contentEncoding] = "gzip"
                         /\ sink[r].snap[contentLength] = Absent

\* C15: the writer calls the sink's WriteHeader at most once, and
\* headerWritten, once true, stays true.
C15_StatusLineOnce ==
    [][\A r \in Reqs :
         /\ sink'[r].whCalls <= 1
         /\ gzw[r].headerWritten => gzw'[r].headerWritten]_vars

\* C16: in every state of a writer, while a compressor is bound the buffer is
\* nil, also after a Write whose flush of the buffer into the compressor
\* failed or was short.
C16_BufferOrCompressor ==
    \A r \in Reqs :
        gzw[r].gw # 0 => (~gzw[r].bufSet /\ gzw[r].buf = <<>>)

\* C17: a Write made while a compressor is bound hands its bytes to that
\* compressor and leaves the buffer alone, whatever the handler has made of
\* Content-Type and Content-Encoding since; the compressor stays bound until
\* Close, and gzipResponse, once true, stays true.
C17_StreamingIsStable ==
    [][\A r \in Reqs :
         /\ (gzw[r].gw # 0 /\ hist'[r].written > hist[r].written)
                => /\ gzw'[r] = gzw[r]
                   /\ sink'[r].wire = sink[r].wire
                          \o Gz([i \in 1..(hist'[r].written - hist[r].written)
                                    |-> hist[r].written + i])
         /\ (gzw[r].gw # 0 /\ hist'[r].closes = hist[r].closes)
                => gzw'[r].gw = gzw[r].gw
         /\ gzw[r].gzipResponse => gzw'[r].gzipResponse
      ]_vars

\* C17's case: after streaming began the handler changed Content-Encoding,
\* which startGzip had set to gzip, to br, so that the test of the buffering
\* branch would now fail, and a later Write still went to the compressor.
C17_Witness ==
    \E r \in Reqs :
        /\ gzw[r].gw # 0
        /\ hist[r].fwdLate
        /\ hdr[r][contentEncoding] = "br"
        /\ Compressed(r) = Stream(r)
        /\ hist[r].written >= 2

\* C18: once a Write has failed with the short-write error of the buffer's
\* flush into the compressor, no later Write brings anything to the sink,
\* through the compressor or directly.
C18_ShortWriteAborts ==
    [][\A r \in Reqs :
         (hist[r].aborted /\ hist'[r].written > hist[r].written)
            => sink'[r].wire = sink[r].wire]_vars

\* C19: on a sink that is no http.Flusher a Flush changes nothing, whether
\* the writer is buffering or streaming: the sink, the headers and the
\* writer's fields stay as they were.
C19_FlushWithoutFlusherIsNoOp ==
    [][\A r \in Reqs :
         ("Flusher" \notin sink[r].caps
          /\ hist'[r].flushCalls > hist[r].flushCalls)
            => /\ sink'[r] = sink[r]
               /\ hdr'[r] = hdr[r]
               /\ gzw'[r] = gzw[r]]_vars

\* C19 as the code has it: on a sink that is no http.Flusher a Flush while
\* buffering changes nothing; a Flush while streaming flushes the compressor,
\* which may bring pending compressed output to the sink, and changes
\* nothing else: the sink's Flush is not
\* called, no status line is emitted, the headers and the writer's buffer,
\* compressor and decision stay as they were.
C19_FlushWithoutFlusherFlushesCompressorOnly ==
    [][\A r \in Reqs :
         ("Flusher" \notin sink[r].caps
          /\ hist'[r].flushCalls > hist[r].flushCalls)
            => /\ hdr'[r] = hdr[r]
               /\ gzw'[r] = gzw[r]
               /\ sink'[r] = [sink[r] EXCEPT !.syncs = sink'[r].syncs]
               /\ gzw[r].gw = 0 => sink'[r].syncs = sink[r].syncs
               /\ gzw[r].gw # 0 => sink'[r].syncs \in {sink[r].syncs,
                                                       sink[r].syncs + 1}]_vars

\* C19's case: a Flush in the streaming state on a sink without Flush: the
\* compressor's sync marker is on the wire and the sink was never flushed.
C19_Witness ==
    \E r \in Reqs :
        /\ "Flusher" \notin sink[r].caps
        /\ hist[r].flushCalls = 1
        /\ sink[r].flushes = 0
        /\ gzw[r].gw # 0
        /\ sink[r].syncs = 1

\* C20: once body bytes have been written, no later call on the writer sets
\* Content-Type (only the handler's own header changes do), and no Write
\* changes a Content-Type that is present.
C20_SniffOnFirstWriteOnly ==
    [][\A r \in Reqs :
         /\ (hist[r].written > 0 /\ hist'[r].hdrOps = hist[r].hdrOps)
                => hdr'[r][contentType] = hdr[r][contentType]
         /\ (hdr[r][contentType] # Absent /\ hist'[r].hdrOps = hist[r].hdrOps)
                => hdr'[r][contentType] = hdr[r][contentType]]_vars

====
